---- MODULE Spec2Model ----
(***************************************************************************)
(* IPv6 prefix aggregation over a binary trie (PatriciaTrie) and the       *)
(* aggregation loops of analyze_ipv6_prefixes, variants v1 (global, input  *)
(* order), v3/v4 (per origin AS, sorted) and v5 (per origin AS, sorted,    *)
(* with the per-group post-filter).                                        *)
(*                                                                         *)
(* The 128-bit address width of the source is scaled to AddrBits bits: an  *)
(* address is a number in 0 .. 2^AddrBits - 1 and a prefix length is in    *)
(* 0 .. AddrBits.  Everything that the source computes from the width      *)
(* (zfill(128), 1 << (128 - prefixlen), the 2**128 limit of IPv6Address)   *)
(* is computed here from AddrBits.                                         *)
(***************************************************************************)
EXTENDS Integers, Sequences, FiniteSets, TLC

\* ------------------------------------------------------------------ bounds
AddrBits == 3
MaxInserts == 2
MaxRecs == 3
MaxShared == 3
NumAS == 2
SEMAPHORE_LIMIT == 2
NumTasks == 4

\* ------------------------------------------------------- Network values
RECURSIVE Pow2(_)
Pow2(n) == IF n = 0 THEN 1 ELSE 2 * Pow2(n - 1)

ALL_ONES == Pow2(AddrBits) - 1

\* ipaddress.ip_network(x, strict=False): host bits beyond the prefix
\* length are cleared.
ip_network(addr, plen) ==
    [network_address |-> addr - (addr % Pow2(AddrBits - plen)), prefixlen |-> plen]

Networks == {ip_network(a, l) : a \in 0..ALL_ONES, l \in 0..AddrBits}

\* Python None, and the marker of a call that raised instead of returning.
None == [network_address |-> -1, prefixlen |-> -1]
Raised == [network_address |-> -2, prefixlen |-> -2]

\* bin(n)[2:] : binary digits, most significant first, no leading zeros
\* ("0" for 0).
RECURSIVE bin(_)
bin(n) == IF n < 2 THEN <<n>> ELSE Append(bin(n \div 2), n % 2)

\* str.zfill(width): left-pad with zeros up to width, never truncates.
RECURSIVE zfill(_, _)
zfill(s, width) == IF Len(s) >= width THEN s ELSE zfill(<<0>> \o s, width)

\* bin(int(network.network_address))[2:].zfill(128)
AddressBits(network) == zfill(bin(network.network_address), AddrBits)

\* The prefix bits without the zfill: leading zero bits are lost.
PrefixStrNoPad(network) ==
    LET s == bin(network.network_address)
    IN SubSeq(s, 1, IF network.prefixlen < Len(s) THEN network.prefixlen ELSE Len(s))

\* bin(int(network.network_address))[2:].zfill(128)[:network.prefixlen]
PrefixStr(network) == SubSeq(AddressBits(network), 1, network.prefixlen)

\* ------------------------------------------------------------ the trie
\* A trie is a function from node positions (the bit path from the root)
\* to nodes; PatriciaTrieNode() is a node with no child, no network and
\* is_aggregated = False.
PatriciaTrieNode == [children |-> {}, network |-> None, is_aggregated |-> FALSE]

root == <<>>

PatriciaTrie == (root :> PatriciaTrieNode)

\* The walk of insert creating a node for every bit, whether or not the
\* child is already there.
RECURSIVE InsertWalkAlwaysNew(_, _, _, _)
InsertWalkAlwaysNew(t, node, bits, network) ==
    IF bits = <<>>
    THEN [t EXCEPT ![node].network = network]
    ELSE LET bit == Head(bits)
             child == Append(node, bit)
             t1 == (child :> PatriciaTrieNode) @@
                   [t EXCEPT ![node].children = @ \cup {bit}]
         IN InsertWalkAlwaysNew(t1, child, Tail(bits), network)

RECURSIVE InsertWalk(_, _, _, _)
InsertWalk(t, node, bits, network) ==
    IF bits = <<>>
    THEN [t EXCEPT ![node].network = network]
    ELSE LET bit == Head(bits)
             child == Append(node, bit)
             t1 == IF bit \in t[node].children
                   THEN t
                   ELSE (child :> PatriciaTrieNode) @@
                        [t EXCEPT ![node].children = @ \cup {bit}]
         IN InsertWalk(t1, child, Tail(bits), network)

insert(t, network) == InsertWalk(t, root, PrefixStr(network), network)

\* The descent loop keeping the first candidate seen instead of the last.
RECURSIVE FindWalkFirstWins(_, _, _, _, _)
FindWalkFirstWins(t, node, bits, cand, network) ==
    IF bits = <<>> \/ Head(bits) \notin t[node].children
    THEN [node |-> node, supernet_candidate |-> cand]
    ELSE LET child == Append(node, Head(bits))
             c == IF cand = None /\ t[child].network # None /\
                     t[child].network.prefixlen < network.prefixlen
                  THEN t[child].network
                  ELSE cand
         IN FindWalkFirstWins(t, child, Tail(bits), c, network)

\* The descent loop taking a network of the query's own prefix length as a
\* candidate too (<= for <).
RECURSIVE FindWalkNotStrict(_, _, _, _, _)
FindWalkNotStrict(t, node, bits, cand, network) ==
    IF bits = <<>> \/ Head(bits) \notin t[node].children
    THEN [node |-> node, supernet_candidate |-> cand]
    ELSE LET child == Append(node, Head(bits))
             c == IF t[child].network # None /\
                     t[child].network.prefixlen <= network.prefixlen
                  THEN t[child].network
                  ELSE cand
         IN FindWalkNotStrict(t, child, Tail(bits), c, network)

\* The descent loop of find_supernet_or_contiguous: the node where the
\* walk stops and the last supernet candidate seen.
RECURSIVE FindWalk(_, _, _, _, _)
FindWalk(t, node, bits, cand, network) ==
    IF bits = <<>> \/ Head(bits) \notin t[node].children
    THEN [node |-> node, supernet_candidate |-> cand]
    ELSE LET child == Append(node, Head(bits))
             c == IF t[child].network # None /\
                     t[child].network.prefixlen < network.prefixlen
                  THEN t[child].network
                  ELSE cand
         IN FindWalk(t, child, Tail(bits), c, network)

\* The call answering with the block computed from next_prefix, whether or
\* not it is the network stored in the node.
FindCallComputedNeighbour(t, network) ==
    LET w == FindWalk(t, root, AddressBits(network), None, network)
        sum == network.network_address + Pow2(AddrBits - network.prefixlen)
    IN IF t[w.node].network # None
       THEN IF sum > ALL_ONES
            THEN [result |-> Raised, next_prefix |-> sum, node |-> w.node]
            ELSE [result |-> [network_address |-> sum, prefixlen |-> network.prefixlen],
                  next_prefix |-> sum, node |-> w.node]
       ELSE [result |-> w.supernet_candidate, next_prefix |-> -1, node |-> w.node]

\* The call answering None for a network whose own node is already marked
\* is_aggregated.
FindCallSkipAggregated(t, network) ==
    LET w == FindWalk(t, root, AddressBits(network), None, network)
        sum == network.network_address + Pow2(AddrBits - network.prefixlen)
        own == PrefixStr(network)
    IN IF own \in DOMAIN t /\ t[own].is_aggregated
       THEN [result |-> None, next_prefix |-> -1, node |-> w.node]
       ELSE IF t[w.node].network # None
       THEN IF sum > ALL_ONES
            THEN [result |-> Raised, next_prefix |-> sum, node |-> w.node]
            ELSE IF t[w.node].network.network_address = sum
                 THEN [result |-> t[w.node].network, next_prefix |-> sum, node |-> w.node]
                 ELSE [result |-> w.supernet_candidate, next_prefix |-> sum, node |-> w.node]
       ELSE [result |-> w.supernet_candidate, next_prefix |-> -1, node |-> w.node]

\* The whole call: result is the returned network, None, or Raised when
\* network_address + (1 << (128 - prefixlen)) is not an address
\* (IPv6Address.__add__ raises AddressValueError above 2**128 - 1);
\* next_prefix is the sum when the code computes it, else -1.
FindCall(t, network) ==
    LET w == FindWalk(t, root, AddressBits(network), None, network)
        sum == network.network_address + Pow2(AddrBits - network.prefixlen)
    IN IF t[w.node].network # None
       THEN IF sum > ALL_ONES
            THEN [result |-> Raised, next_prefix |-> sum, node |-> w.node]
            ELSE IF t[w.node].network.network_address = sum
                 THEN [result |-> t[w.node].network, next_prefix |-> sum, node |-> w.node]
                 ELSE [result |-> w.supernet_candidate, next_prefix |-> sum, node |-> w.node]
       ELSE [result |-> w.supernet_candidate, next_prefix |-> -1, node |-> w.node]

find_supernet_or_contiguous(t, network) == FindCall(t, network).result

\* find_supernet_or_contiguous of calcilo_metricas.py, where the contiguity
\* test is commented out: the walk, then return supernet_candidate.
FindCallNoContiguity(t, network) ==
    LET w == FindWalk(t, root, AddressBits(network), None, network)
    IN [result |-> w.supernet_candidate, next_prefix |-> -1, node |-> w.node]

\* The walk of mark_as_aggregated: node.children[bit] for each prefix bit;
\* <<-1>> stands for the KeyError of a missing child.
RECURSIVE MarkWalk(_, _, _)
MarkWalk(t, node, bits) ==
    IF bits = <<>> THEN node
    ELSE IF Head(bits) \in t[node].children
         THEN MarkWalk(t, Append(node, Head(bits)), Tail(bits))
         ELSE <<-1>>

KeyError == <<-1>>

\* The marking done inside the walk: every node on the way to the terminal
\* node is flagged, not only the terminal one.
mark_as_aggregatedAlongPath(t, network) ==
    LET node == MarkWalk(t, root, PrefixStr(network))
        OnPath(n) == /\ Len(n) >= 1
                     /\ Len(n) <= Len(PrefixStr(network))
                     /\ n = SubSeq(PrefixStr(network), 1, Len(n))
    IN IF node = KeyError THEN t
       ELSE IF t[node].network = network
            THEN [n \in DOMAIN t |->
                    IF OnPath(n) THEN [t[n] EXCEPT !.is_aggregated = TRUE] ELSE t[n]]
            ELSE t

mark_as_aggregated(t, network) ==
    LET node == MarkWalk(t, root, PrefixStr(network))
    IN IF node = KeyError THEN t
       ELSE IF t[node].network = network
            THEN [t EXCEPT ![node].is_aggregated = TRUE]
            ELSE t

MarkRaises(t, network) == MarkWalk(t, root, PrefixStr(network)) = KeyError

\* ------------------------------------------------------------- the state
VARIABLES
    trie,                   \* PatriciaTrie: node position -> node
    inserted,               \* history: the networks insert was called with
    lastOp,                 \* the trie operation called last ("none" at first)
    lastArg,                \* its argument
    lastOut,                \* its outcome: [result, next_prefix]
    df,                     \* the parsed records: <<[network, origin_as], ...>>
    variant,                \* which analyze_ipv6_prefixes is running
    plan,                   \* what the second run of the session is
    run,                    \* 1 or 2
    pc,                     \* position in analyze_ipv6_prefixes
    pending,                \* origin AS groups still to process, in order
    networks,               \* the list being iterated
    idx,                    \* index of the next element of networks
    aggregated_in_as,
    aggregated_networks,
    max_agg_prefixes_count,
    total_prefijos,
    first                   \* the result of run 1, once it has finished

\* The WHOIS check: the module-level semaphore and asn_cache, and the
\* coroutines is_asn_registered(asn) that asyncio.gather runs.
VARIABLES
    semaphore,              \* semaphore._value
    waiters,                \* semaphore._waiters: the tasks queued in acquire
    at,                     \* where each task is in is_asn_registered
    asn_cache,              \* asn -> registered, for the asns cached so far
    results,                \* what each task returned
    process,                \* how each task's whois query ended
    queries                 \* history: whois processes started, per asn

trieVars == <<trie, inserted, lastOp, lastArg, lastOut>>
engineVars == <<df, variant, plan, run, pc, pending, networks, idx,
                aggregated_in_as, aggregated_networks, max_agg_prefixes_count,
                total_prefijos, first>>
whoisVars == <<semaphore, waiters, at, asn_cache, results, process, queries>>
vars == <<trie, inserted, lastOp, lastArg, lastOut,
          df, variant, plan, run, pc, pending, networks, idx,
          aggregated_in_as, aggregated_networks, max_agg_prefixes_count,
          total_prefijos, first, semaphore, waiters, at, asn_cache, results,
          process, queries>>

NoOut == [result |-> None, next_prefix |-> -1]
NoResult == [aggregated_networks |-> {}, max_agg_prefixes_count |-> -1]

\* ------------------------------------------------- the WHOIS check
\* unique_asns: one coroutine is_asn_registered(asn) per distinct origin AS.
unique_asns == 1..NumTasks

NotCached == [a \in {} |-> FALSE]
NoValue == "none"

\* The tasks whose future in semaphore._waiters is not done yet.
Pending(w, p) == {i \in 1..Len(w) : p[w[i]] = "waiting"}

\* Semaphore.locked(): no value left, or a waiter that was not cancelled.
locked(v, w) == v = 0 \/ Len(w) > 0

\* Semaphore._wake_up_next(): the first waiter whose future is not done
\* gets its result set, and the value is taken for it.
wake_up_next(v, w, p) ==
    IF Pending(w, p) = {}
    THEN [value |-> v, at |-> p]
    ELSE LET i == CHOOSE x \in Pending(w, p) : \A y \in Pending(w, p) : x <= y
         IN [value |-> v - 1, at |-> [p EXCEPT ![w[i]] = "woken"]]

\* A release that adds to the value and wakes nobody.
releaseWithoutWakeUp(v, w, p) == [value |-> v + 1, at |-> p]

\* Semaphore.release(), called when 'async with semaphore' is left, by a
\* return or by an exception alike.
release(v, w, p) == wake_up_next(v + 1, w, p)

\* No WHOIS check is running.
IdleWhois ==
    /\ semaphore = SEMAPHORE_LIMIT
    /\ waiters = <<>>
    /\ at = [t \in unique_asns |-> "none"]
    /\ asn_cache = NotCached
    /\ results = [t \in unique_asns |-> NoValue]
    /\ process = [t \in unique_asns |-> NoValue]
    /\ queries = [a \in unique_asns |-> 0]

\* ------------------------------------------- the trie, called directly
TrieInit ==
    /\ trie = PatriciaTrie
    /\ inserted = {}
    /\ lastOp = "none"
    /\ lastArg = None
    /\ lastOut = NoOut

IdleEngine ==
    /\ df = <<>>
    /\ variant = "none"
    /\ plan = "none"
    /\ run = 0
    /\ pc = "idle"
    /\ pending = <<>>
    /\ networks = <<>>
    /\ idx = 0
    /\ aggregated_in_as = {}
    /\ aggregated_networks = {}
    /\ max_agg_prefixes_count = 0
    /\ total_prefijos = 0
    /\ first = NoResult

InitTrie == TrieInit /\ IdleEngine /\ IdleWhois

Insert(network) ==
    /\ pc = "idle"
    /\ network \in inserted \/ Cardinality(inserted) < MaxInserts
    /\ trie' = insert(trie, network)
    /\ inserted' = inserted \cup {network}
    /\ lastOp' = "insert"
    /\ lastArg' = network
    /\ lastOut' = NoOut
    /\ UNCHANGED engineVars
    /\ UNCHANGED whoisVars

Find(network) ==
    /\ pc = "idle"
    /\ LET r == FindCall(trie, network)
       IN lastOut' = [result |-> r.result, next_prefix |-> r.next_prefix]
    /\ lastOp' = "find"
    /\ lastArg' = network
    /\ UNCHANGED <<trie, inserted>>
    /\ UNCHANGED engineVars
    /\ UNCHANGED whoisVars

Mark(network) ==
    /\ pc = "idle"
    /\ trie' = mark_as_aggregated(trie, network)
    /\ lastOut' = [result |-> IF MarkRaises(trie, network) THEN Raised ELSE None,
                   next_prefix |-> -1]
    /\ lastOp' = "mark"
    /\ lastArg' = network
    /\ UNCHANGED inserted
    /\ UNCHANGED engineVars
    /\ UNCHANGED whoisVars

NextTrie ==
    \/ \E network \in Networks : Insert(network)
    \/ \E network \in Networks : Find(network)
    \/ \E network \in Networks : Mark(network)

SpecTrie == InitTrie /\ [][NextTrie]_vars

\* ------------------------------------------- analyze_ipv6_prefixes
ASNs == 1..NumAS

\* df['network']
NetworkColumn(d) == [i \in 1..Len(d) |-> d[i].network]

\* Series.drop_duplicates(): the first occurrence of each value, in order.
RECURSIVE drop_duplicates(_)
drop_duplicates(s) ==
    IF s = <<>> THEN <<>>
    ELSE LET front == drop_duplicates(SubSeq(s, 1, Len(s) - 1))
             last == s[Len(s)]
         IN IF \E i \in 1..Len(front) : front[i] = last
            THEN front
            ELSE Append(front, last)

\* key=lambda x: (x.prefixlen, x.network_address)
KeyLess(a, b) ==
    \/ a.prefixlen < b.prefixlen
    \/ a.prefixlen = b.prefixlen /\ a.network_address < b.network_address

\* The list left in the order it came in.
Unsorted(s) == s

\* The list sorted the other way round (reverse=True).
RECURSIVE sortedDescending(_)
sortedDescending(s) ==
    IF s = <<>> THEN <<>>
    ELSE LET front == sortedDescending(SubSeq(s, 1, Len(s) - 1))
             x == s[Len(s)]
             k == Cardinality({i \in 1..Len(front) : ~KeyLess(front[i], x)})
         IN SubSeq(front, 1, k) \o <<x>> \o SubSeq(front, k + 1, Len(front))

\* sorted(list, key=...): stable, ascending in the key.
RECURSIVE sorted(_)
sorted(s) ==
    IF s = <<>> THEN <<>>
    ELSE LET front == sorted(SubSeq(s, 1, Len(s) - 1))
             x == s[Len(s)]
             k == Cardinality({i \in 1..Len(front) : ~KeyLess(x, front[i])})
         IN SubSeq(front, 1, k) \o <<x>> \o SubSeq(front, k + 1, Len(front))

RECURSIVE Ascending(_)
Ascending(S) ==
    IF S = {} THEN <<>>
    ELSE LET m == CHOOSE x \in S : \A y \in S : x <= y
         IN <<m>> \o Ascending(S \ {m})

\* df.groupby('origin_as'): the group keys, in ascending order.
GroupKeys(d) == Ascending({d[i].origin_as : i \in 1..Len(d)})

\* sorted(group['network'].drop_duplicates().tolist(), key=...)
GroupNetworks(d, origin_as) ==
    LET InGroup(r) == r.origin_as = origin_as
    IN sorted(drop_duplicates(NetworkColumn(SelectSeq(d, InGroup))))

\* for network in df['network'].drop_duplicates(): trie.insert(network)
RECURSIVE InsertAll(_, _)
InsertAll(t, s) == IF s = <<>> THEN t ELSE InsertAll(insert(t, Head(s)), Tail(s))

\* v4: aggregated_networks.update(aggregated_in_as)
UpdateWith(agg, in_as) == agg \cup in_as

\* The filter with the comparison the other way round: a network is kept
\* unless another one of the group has the same address and a shorter prefix.
FilterIntoKeepShortest(agg, in_as) ==
    agg \cup {n \in in_as :
                ~\E other \in in_as : /\ other.prefixlen < n.prefixlen
                                      /\ other.network_address = n.network_address}

\* v5: a network of the group is kept unless another one of the group has
\* the same address and a longer prefix.
FilterInto(agg, in_as) ==
    agg \cup {n \in in_as :
                ~\E other \in in_as : /\ other.prefixlen > n.prefixlen
                                      /\ other.network_address = n.network_address}

Grouped == {"v4", "v5"}

\* The files that sort each group and look it up in the trie of the whole
\* input: v3.py and v4.py ("v4"), v5.py, calcilo_metricas.py; and those of
\* them that filter a group's set before adding it to aggregated_networks.
SortedGrouped == Grouped \cup {"calcilo_metricas"}
Filtered == {"v5", "calcilo_metricas"}
Variants == {"v1"} \cup Grouped

\* The inputs: up to MaxRecs records of one origin AS in any order, with
\* repetitions; and up to MaxShared distinct networks, each announced by any
\* non-empty set of origin ASes.
SeqsUpTo(S, n) == UNION {[1..k -> S] : k \in 0..n}

SingleOriginInputs ==
    {[i \in 1..Len(s) |-> [network |-> s[i], origin_as |-> 1]] :
        s \in SeqsUpTo(Networks, MaxRecs)}

OriginSets == SUBSET ASNs \ {{}}

RECURSIVE Announcements(_, _)
Announcements(nets, origins) ==
    IF nets = <<>> THEN <<>>
    ELSE LET as == Ascending(Head(origins))
         IN [i \in 1..Len(as) |-> [network |-> Head(nets), origin_as |-> as[i]]]
            \o Announcements(Tail(nets), Tail(origins))

SharedInputs ==
    UNION {{Announcements(s, o) : o \in [1..Len(s) -> OriginSets]} :
              s \in {q \in SeqsUpTo(Networks, MaxShared) :
                        \A i, j \in 1..Len(q) : i < j => KeyLess(q[i], q[j])}}

Inputs == SingleOriginInputs \cup SharedInputs

\* The same records in another order.
Reverse(s) == [i \in 1..Len(s) |-> s[Len(s) + 1 - i]]
Rotate(s) == IF s = <<>> THEN s ELSE Append(Tail(s), Head(s))
Reorderings(s) == {Reverse(s), Rotate(s)}

Result == [aggregated_networks |-> aggregated_networks,
           max_agg_prefixes_count |-> max_agg_prefixes_count]

InitRun(p, V) ==
    /\ TrieInit
    /\ IdleWhois
    /\ df \in Inputs
    /\ variant \in V
    /\ plan = p
    /\ run = 1
    /\ pc = "build"
    /\ pending = <<>>
    /\ networks = <<>>
    /\ idx = 0
    /\ aggregated_in_as = {}
    /\ aggregated_networks = {}
    /\ max_agg_prefixes_count = 0
    /\ total_prefijos = 0
    /\ first = NoResult

\* trie = PatriciaTrie(); the insert loop; total_prefijos.
BuildTrie ==
    /\ pc = "build"
    /\ LET nets == drop_duplicates(NetworkColumn(df))
       IN /\ trie' = InsertAll(PatriciaTrie, nets)
          /\ inserted' = {nets[i] : i \in 1..Len(nets)}
          /\ total_prefijos' = Len(nets)
    /\ pc' = "start"
    /\ UNCHANGED <<lastOp, lastArg, lastOut, df, variant, plan, run, pending,
                   networks, idx, aggregated_in_as, aggregated_networks,
                   max_agg_prefixes_count, first>>
    /\ UNCHANGED whoisVars

\* The set-up of the iteration with the event counter starting at 1.
StartEngineCountFromOne ==
    /\ pc = "start"
    /\ max_agg_prefixes_count' = 1
    /\ aggregated_networks' = {}
    /\ aggregated_in_as' = {}
    /\ IF variant = "v1"
       THEN /\ networks' = drop_duplicates(NetworkColumn(df))
            /\ idx' = 1
            /\ pending' = <<>>
            /\ pc' = "scan"
       ELSE /\ networks' = <<>>
            /\ idx' = 0
            /\ pending' = GroupKeys(df)
            /\ pc' = "groups"
    /\ UNCHANGED <<trie, inserted, lastOp, lastArg, lastOut, df, variant, plan,
                   run, total_prefijos, first>>
    /\ UNCHANGED whoisVars

\* max_agg_prefixes_count = 0; aggregated_networks = set(); and the
\* iteration that follows is set up: the deduplicated column (v1) or the
\* groups by origin AS (v4, v5).
StartEngine ==
    /\ pc = "start"
    /\ max_agg_prefixes_count' = 0
    /\ aggregated_networks' = {}
    /\ aggregated_in_as' = {}
    /\ IF variant = "v1"
       THEN /\ networks' = drop_duplicates(NetworkColumn(df))
            /\ idx' = 1
            /\ pending' = <<>>
            /\ pc' = "scan"
       ELSE /\ networks' = <<>>
            /\ idx' = 0
            /\ pending' = GroupKeys(df)
            /\ pc' = "groups"
    /\ UNCHANGED <<trie, inserted, lastOp, lastArg, lastOut, df, variant, plan,
                   run, total_prefijos, first>>
    /\ UNCHANGED whoisVars

\* The loop body of v1 without the test 'if network in aggregated_networks:
\* continue': every network is looked up.
GlobalStepNoSkip ==
    /\ pc = "scan"
    /\ idx <= Len(networks)
    /\ LET network == networks[idx]
           r == FindCall(trie, network)
       IN /\ lastOp' = "find"
          /\ lastArg' = network
          /\ lastOut' = [result |-> r.result, next_prefix |-> r.next_prefix]
          /\ IF r.result = Raised
             THEN /\ pc' = "crashed"
                  /\ UNCHANGED <<trie, idx, aggregated_networks,
                                 max_agg_prefixes_count>>
             ELSE /\ pc' = pc
                  /\ idx' = idx + 1
                  /\ IF r.result # None
                     THEN /\ max_agg_prefixes_count' = max_agg_prefixes_count + 1
                          /\ aggregated_networks' =
                                 aggregated_networks \cup {network, r.result}
                          /\ trie' = mark_as_aggregated(trie, network)
                     ELSE UNCHANGED <<trie, aggregated_networks,
                                      max_agg_prefixes_count>>
    /\ UNCHANGED <<inserted, df, variant, plan, run, pending, networks,
                   aggregated_in_as, total_prefijos, first>>
    /\ UNCHANGED whoisVars

\* One iteration of the loop of v1 over all distinct networks.
GlobalStep ==
    /\ pc = "scan"
    /\ idx <= Len(networks)
    /\ LET network == networks[idx]
           r == FindCall(trie, network)
       IN IF network \in aggregated_networks
          THEN /\ idx' = idx + 1
               /\ UNCHANGED <<trie, lastOp, lastArg, lastOut, pc,
                              aggregated_networks, max_agg_prefixes_count>>
          ELSE /\ lastOp' = "find"
               /\ lastArg' = network
               /\ lastOut' = [result |-> r.result, next_prefix |-> r.next_prefix]
               /\ IF r.result = Raised
                  THEN /\ pc' = "crashed"
                       /\ UNCHANGED <<trie, idx, aggregated_networks,
                                      max_agg_prefixes_count>>
                  ELSE /\ pc' = pc
                       /\ idx' = idx + 1
                       /\ IF r.result # None
                          THEN /\ max_agg_prefixes_count' = max_agg_prefixes_count + 1
                               /\ aggregated_networks' =
                                      aggregated_networks \cup {network, r.result}
                               /\ trie' = mark_as_aggregated(trie, network)
                          ELSE UNCHANGED <<trie, aggregated_networks,
                                           max_agg_prefixes_count>>
    /\ UNCHANGED <<inserted, df, variant, plan, run, pending, networks,
                   aggregated_in_as, total_prefijos, first>>
    /\ UNCHANGED whoisVars

\* for origin_as, group in grouped_as: the sorted list of the next group and
\* an empty aggregated_in_as.
BeginGroup ==
    /\ pc = "groups"
    /\ pending # <<>>
    /\ networks' = GroupNetworks(df, Head(pending))
    /\ pending' = Tail(pending)
    /\ aggregated_in_as' = {}
    /\ idx' = 1
    /\ pc' = "group"
    /\ UNCHANGED <<trie, inserted, lastOp, lastArg, lastOut, df, variant, plan,
                   run, aggregated_networks, max_agg_prefixes_count,
                   total_prefijos, first>>
    /\ UNCHANGED whoisVars

\* The inner loop body adding only the network the lookup returned, and not
\* the network looked up.
GroupStepResultOnly ==
    /\ pc = "group"
    /\ idx <= Len(networks)
    /\ LET network == networks[idx]
           r == FindCall(trie, network)
       IN IF network \in aggregated_in_as
          THEN /\ idx' = idx + 1
               /\ UNCHANGED <<trie, lastOp, lastArg, lastOut, pc,
                              aggregated_in_as, max_agg_prefixes_count>>
          ELSE /\ lastOp' = "find"
               /\ lastArg' = network
               /\ lastOut' = [result |-> r.result, next_prefix |-> r.next_prefix]
               /\ IF r.result = Raised
                  THEN /\ pc' = "crashed"
                       /\ UNCHANGED <<trie, idx, aggregated_in_as,
                                      max_agg_prefixes_count>>
                  ELSE /\ pc' = pc
                       /\ idx' = idx + 1
                       /\ IF r.result # None
                          THEN /\ max_agg_prefixes_count' = max_agg_prefixes_count + 1
                               /\ aggregated_in_as' = aggregated_in_as \cup {r.result}
                               /\ trie' = mark_as_aggregated(trie, network)
                          ELSE UNCHANGED <<trie, aggregated_in_as,
                                           max_agg_prefixes_count>>
    /\ UNCHANGED <<inserted, df, variant, plan, run, pending, networks,
                   aggregated_networks, total_prefijos, first>>
    /\ UNCHANGED whoisVars

\* trie.find_supernet_or_contiguous(network) as the file of the run defines
\* it: calcilo_metricas.py has no contiguity test.
Lookup(t, network) ==
    IF variant = "calcilo_metricas"
    THEN FindCallNoContiguity(t, network)
    ELSE FindCall(t, network)

\* One iteration of the inner loop of v4, v5 and calcilo_metricas.
GroupStep ==
    /\ pc = "group"
    /\ idx <= Len(networks)
    /\ LET network == networks[idx]
           r == Lookup(trie, network)
       IN IF network \in aggregated_in_as
          THEN /\ idx' = idx + 1
               /\ UNCHANGED <<trie, lastOp, lastArg, lastOut, pc,
                              aggregated_in_as, max_agg_prefixes_count>>
          ELSE /\ lastOp' = "find"
               /\ lastArg' = network
               /\ lastOut' = [result |-> r.result, next_prefix |-> r.next_prefix]
               /\ IF r.result = Raised
                  THEN /\ pc' = "crashed"
                       /\ UNCHANGED <<trie, idx, aggregated_in_as,
                                      max_agg_prefixes_count>>
                  ELSE /\ pc' = pc
                       /\ idx' = idx + 1
                       /\ IF r.result # None
                          THEN /\ max_agg_prefixes_count' = max_agg_prefixes_count + 1
                               /\ aggregated_in_as' =
                                      aggregated_in_as \cup {network, r.result}
                               /\ trie' = mark_as_aggregated(trie, network)
                          ELSE UNCHANGED <<trie, aggregated_in_as,
                                           max_agg_prefixes_count>>
    /\ UNCHANGED <<inserted, df, variant, plan, run, pending, networks,
                   aggregated_networks, total_prefijos, first>>
    /\ UNCHANGED whoisVars

\* The end of a group: its aggregated set goes into aggregated_networks,
\* whole (v4) or filtered (v5).
EndGroup ==
    /\ pc = "group"
    /\ idx > Len(networks)
    /\ aggregated_networks' =
           IF variant \in Filtered
           THEN FilterInto(aggregated_networks, aggregated_in_as)
           ELSE UpdateWith(aggregated_networks, aggregated_in_as)
    /\ pc' = "groups"
    /\ UNCHANGED <<trie, inserted, lastOp, lastArg, lastOut, df, variant, plan,
                   run, pending, networks, idx, aggregated_in_as,
                   max_agg_prefixes_count, total_prefijos, first>>
    /\ UNCHANGED whoisVars

LoopsOver ==
    \/ pc = "scan" /\ idx > Len(networks)
    \/ pc = "groups" /\ pending = <<>>

\* The first run returns; the session goes on with its second run: the
\* engine again on the same trie ("rerun"), the whole analysis on the
\* records in another order ("reorder"), or the whole analysis of v1 on the
\* same records ("compare").
FinishFirst ==
    /\ LoopsOver
    /\ run = 1
    /\ first' = Result
    /\ run' = 2
    /\ IF plan = "rerun"
       THEN /\ pc' = "start"
            /\ UNCHANGED <<trie, inserted, df, variant>>
       ELSE /\ pc' = "build"
            /\ trie' = PatriciaTrie
            /\ inserted' = {}
            /\ IF plan = "reorder"
               THEN /\ df' \in Reorderings(df)
                    /\ UNCHANGED variant
               ELSE /\ variant' = "v1"
                    /\ UNCHANGED df
    /\ UNCHANGED <<lastOp, lastArg, lastOut, plan, pending, networks, idx,
                   aggregated_in_as, aggregated_networks, max_agg_prefixes_count,
                   total_prefijos>>
    /\ UNCHANGED whoisVars

FinishSecond ==
    /\ LoopsOver
    /\ run = 2
    /\ pc' = "done"
    /\ UNCHANGED <<trie, inserted, lastOp, lastArg, lastOut, df, variant, plan,
                   run, pending, networks, idx, aggregated_in_as,
                   aggregated_networks, max_agg_prefixes_count, total_prefijos,
                   first>>
    /\ UNCHANGED whoisVars

Next ==
    \/ BuildTrie
    \/ StartEngine
    \/ GlobalStep
    \/ BeginGroup
    \/ GroupStep
    \/ EndGroup
    \/ FinishFirst
    \/ FinishSecond

Init == InitRun("rerun", Variants)
Spec == Init /\ [][Next]_vars

InitReorder == InitRun("reorder", Variants)
SpecReorder == InitReorder /\ [][Next]_vars

InitCompare == InitRun("compare", Grouped)
SpecCompare == InitCompare /\ [][Next]_vars

\* The runs of the files that sort each group, calcilo_metricas.py included.
NextSorted ==
    \/ BuildTrie
    \/ StartEngine
    \/ BeginGroup
    \/ GroupStep
    \/ EndGroup
    \/ FinishFirst
    \/ FinishSecond

InitSorted == InitRun("rerun", SortedGrouped)
SpecSorted == InitSorted /\ [][NextSorted]_vars

\* ------------------------------------- analyze_ipv6_prefixes of v2.py
\* The keys of as_prefixes, in the order the rows first mention them.
OriginColumn(d) == [i \in 1..Len(d) |-> d[i].origin_as]

AsKeys(d) == drop_duplicates(OriginColumn(d))

\* as_prefixes[origin_as]: the networks of the rows of that origin AS, in
\* row order, repetitions included.
as_prefixes(d, origin_as) ==
    LET InGroup(r) == r.origin_as = origin_as
    IN NetworkColumn(SelectSeq(d, InGroup))

\* sorted(set(networks), key=...): the key orders distinct networks
\* totally, so the order in which the set is iterated does not show.
SortedSet(s) == sorted(drop_duplicates(s))

\* The loop over df.iterrows() (one insert per row), total_prefijos and the
\* initialisation of the counters.
V2Build ==
    /\ pc = "build"
    /\ trie' = InsertAll(PatriciaTrie, NetworkColumn(df))
    /\ inserted' = {df[i].network : i \in 1..Len(df)}
    /\ total_prefijos' = Len(drop_duplicates(NetworkColumn(df)))
    /\ max_agg_prefixes_count' = 0
    /\ aggregated_networks' = {}
    /\ pending' = AsKeys(df)
    /\ pc' = "groups"
    /\ UNCHANGED <<lastOp, lastArg, lastOut, df, variant, plan, run, networks,
                   idx, aggregated_in_as, first>>
    /\ UNCHANGED whoisVars

\* for origin_as, networks in as_prefixes.items(): the head of pending is
\* the origin AS being processed; current_aggregated = [].
V2BeginAS ==
    /\ pc = "groups"
    /\ pending # <<>>
    /\ networks' = SortedSet(as_prefixes(df, Head(pending)))
    /\ idx' = 1
    /\ aggregated_in_as' = {}
    /\ pc' = "group"
    /\ UNCHANGED <<trie, inserted, lastOp, lastArg, lastOut, df, variant, plan,
                   run, pending, aggregated_networks, max_agg_prefixes_count,
                   total_prefijos, first>>
    /\ UNCHANGED whoisVars

\* One iteration of the inner loop of v2: the skip test reads the run-wide
\* aggregated_networks, and both networks are marked in the trie.
V2Step ==
    /\ pc = "group"
    /\ idx <= Len(networks)
    /\ LET network == networks[idx]
           r == FindCall(trie, network)
       IN IF network \in aggregated_networks
          THEN /\ idx' = idx + 1
               /\ UNCHANGED <<trie, lastOp, lastArg, lastOut, pc,
                              aggregated_networks, max_agg_prefixes_count>>
          ELSE /\ lastOp' = "find"
               /\ lastArg' = network
               /\ lastOut' = [result |-> r.result, next_prefix |-> r.next_prefix]
               /\ IF r.result = Raised
                  THEN /\ pc' = "crashed"
                       /\ UNCHANGED <<trie, idx, aggregated_networks,
                                      max_agg_prefixes_count>>
                  ELSE IF r.result = None
                  THEN /\ idx' = idx + 1
                       /\ UNCHANGED <<trie, pc, aggregated_networks,
                                      max_agg_prefixes_count>>
                  ELSE /\ max_agg_prefixes_count' = max_agg_prefixes_count + 1
                       /\ aggregated_networks' =
                              aggregated_networks \cup {network, r.result}
                       /\ IF MarkRaises(mark_as_aggregated(trie, network), r.result)
                          THEN /\ trie' = mark_as_aggregated(trie, network)
                               /\ pc' = "crashed"
                               /\ UNCHANGED idx
                          ELSE /\ trie' = mark_as_aggregated(
                                              mark_as_aggregated(trie, network), r.result)
                               /\ pc' = pc
                               /\ idx' = idx + 1
    /\ UNCHANGED <<inserted, df, variant, plan, run, pending, networks,
                   aggregated_in_as, total_prefijos, first>>
    /\ UNCHANGED whoisVars

\* current_aggregated.extend(...): the networks of this origin AS that are
\* in aggregated_networks; the loop goes on to the next origin AS.
V2EndAS ==
    /\ pc = "group"
    /\ idx > Len(networks)
    /\ aggregated_in_as' =
           {networks[i] : i \in {j \in 1..Len(networks) : networks[j] \in aggregated_networks}}
    /\ pending' = Tail(pending)
    /\ pc' = "groups"
    /\ UNCHANGED <<trie, inserted, lastOp, lastArg, lastOut, df, variant, plan,
                   run, networks, idx, aggregated_networks,
                   max_agg_prefixes_count, total_prefijos, first>>
    /\ UNCHANGED whoisVars

\* The loop over as_prefixes is over: the counts are printed.
V2Finish ==
    /\ pc = "groups"
    /\ pending = <<>>
    /\ pc' = "done"
    /\ UNCHANGED <<trie, inserted, lastOp, lastArg, lastOut, df, variant, plan,
                   run, pending, networks, idx, aggregated_in_as,
                   aggregated_networks, max_agg_prefixes_count, total_prefijos,
                   first>>
    /\ UNCHANGED whoisVars

NextV2 ==
    \/ V2Build
    \/ V2BeginAS
    \/ V2Step
    \/ V2EndAS
    \/ V2Finish

InitV2 == InitRun("single", {"v2"})
SpecV2 == InitV2 /\ [][NextV2]_vars

\* ------------------------------------------- is_asn_registered, gathered
Remove(w, t) == SelectSeq(w, LAMBDA x : x # t)

\* The files that have is_asn_registered.
WhoisSources == {"v4", "v5", "calcilo_metricas", "consultas_whoisv2"}

\* What a whois process that ran to its end leaves: its exit status, and of
\* its stdout whether it decodes as UTF-8, whether it names a registry
\* (ARIN, RIPE, ...) and whether it has one of the words the code reads as
\* 'unregistered' (denied, Not found, ERROR, ...).
Outcomes == [returncode : {0, 1}, utf8 : BOOLEAN, rir : BOOLEAN, denied : BOOLEAN]

\* stdout.decode() of consultas_whoisv2.py raises on bytes that are not
\* UTF-8; the other files fall back to latin-1, which decodes anything.
DecodeRaises(v, out) == v = "consultas_whoisv2" /\ ~out.utf8

\* registered, as each file computes it from the decoded output: a registry
\* keyword is present (v4, consultas_whoisv2), or no 'unregistered' word is
\* (v5, calcilo_metricas). The exit status is not read.
Registered(v, out) ==
    IF v \in {"v4", "consultas_whoisv2"} THEN out.rir ELSE ~out.denied

\* The tasks of a list of asns that was not deduplicated: two tasks per asn.
asn_of_repeated(t) == (t + 1) \div 2

\* tasks = [is_asn_registered(asn) for asn in unique_asns]: the asn of the
\* t-th task; unique_asns is deduplicated, so every task has its own.
asn_of(t) == t

\* The coroutine starts: the cached value is returned if there is one;
\* otherwise 'async with semaphore' acquires at once when the semaphore is
\* not locked, and create_subprocess_exec is called; the task is queued
\* when the semaphore is locked.
Enter(t) ==
    /\ at[t] = "start"
    /\ IF asn_of(t) \in DOMAIN asn_cache
       THEN /\ results' = [results EXCEPT ![t] = asn_cache[asn_of(t)]]
            /\ at' = [at EXCEPT ![t] = "returned"]
            /\ UNCHANGED <<semaphore, waiters, queries>>
       ELSE IF ~locked(semaphore, waiters)
       THEN /\ semaphore' = semaphore - 1
            /\ at' = [at EXCEPT ![t] = "spawning"]
            /\ queries' = [queries EXCEPT ![asn_of(t)] = @ + 1]
            /\ UNCHANGED <<waiters, results>>
       ELSE /\ waiters' = Append(waiters, t)
            /\ at' = [at EXCEPT ![t] = "waiting"]
            /\ UNCHANGED <<semaphore, results, queries>>
    /\ UNCHANGED <<asn_cache, process>>
    /\ UNCHANGED <<trieVars, engineVars>>

\* A woken task resumes in acquire: it leaves the queue and, if a value is
\* left, wakes the next waiter; then create_subprocess_exec is called.
Resume(t) ==
    /\ at[t] = "woken"
    /\ LET w == Remove(waiters, t)
           p == [at EXCEPT ![t] = "spawning"]
           r == IF semaphore > 0 THEN wake_up_next(semaphore, w, p)
                ELSE [value |-> semaphore, at |-> p]
       IN /\ waiters' = w
          /\ semaphore' = r.value
          /\ at' = r.at
    /\ queries' = [queries EXCEPT ![asn_of(t)] = @ + 1]
    /\ UNCHANGED <<asn_cache, results, process>>
    /\ UNCHANGED <<trieVars, engineVars>>

\* await asyncio.create_subprocess_exec("whois", ...) has started the
\* process.
Spawned(t) ==
    /\ at[t] = "spawning"
    /\ at' = [at EXCEPT ![t] = "communicating"]
    /\ UNCHANGED <<semaphore, waiters, asn_cache, results, process, queries>>
    /\ UNCHANGED <<trieVars, engineVars>>

\* An exception inside the try (the process cannot be started, or its
\* output cannot be read): asn_cache[asn] = False, return False, and the
\* semaphore is released on the way out.
QueryFails(t) ==
    /\ at[t] \in {"spawning", "communicating"}
    /\ asn_cache' = (asn_of(t) :> FALSE) @@ asn_cache
    /\ results' = [results EXCEPT ![t] = FALSE]
    /\ process' = [process EXCEPT ![t] = "raised"]
    /\ LET r == release(semaphore, waiters, [at EXCEPT ![t] = "returned"])
       IN /\ semaphore' = r.value
          /\ at' = r.at
    /\ UNCHANGED <<waiters, queries>>
    /\ UNCHANGED <<trieVars, engineVars>>

\* The value a task caches and returns for a process that has ended.
Verdict(v, out) == IF DecodeRaises(v, out) THEN FALSE ELSE Registered(v, out)

\* How such a process is remembered: by a decode error, a non-zero exit
\* status, or neither.
Ending(out) ==
    IF ~out.utf8 THEN "undecodable"
    ELSE IF out.returncode # 0 THEN "nonzero" ELSE "exited"

\* await process.communicate() has the output: it is decoded (an exception
\* here is caught like any other), registered is computed from it, cached
\* and returned, and the semaphore is released on the way out.
Answered(t, out) ==
    /\ at[t] = "communicating"
    /\ asn_cache' = (asn_of(t) :> Verdict(variant, out)) @@ asn_cache
    /\ results' = [results EXCEPT ![t] = Verdict(variant, out)]
    /\ process' = [process EXCEPT ![t] = Ending(out)]
    /\ LET r == release(semaphore, waiters, [at EXCEPT ![t] = "returned"])
       IN /\ semaphore' = r.value
          /\ at' = r.at
    /\ UNCHANGED <<waiters, queries>>
    /\ UNCHANGED <<trieVars, engineVars>>

NextWhois ==
    \/ \E t \in unique_asns : Enter(t)
    \/ \E t \in unique_asns : Resume(t)
    \/ \E t \in unique_asns : Spawned(t)
    \/ \E t \in unique_asns : QueryFails(t)
    \/ \E t \in unique_asns, out \in Outcomes : Answered(t, out)

\* tasks = [is_asn_registered(asn) for asn in unique_asns];
\* await asyncio.gather(*tasks), in any of the files that have it.
InitWhois ==
    /\ TrieInit
    /\ df = <<>>
    /\ variant \in WhoisSources
    /\ plan = "none"
    /\ run = 0
    /\ pc = "idle"
    /\ pending = <<>>
    /\ networks = <<>>
    /\ idx = 0
    /\ aggregated_in_as = {}
    /\ aggregated_networks = {}
    /\ max_agg_prefixes_count = 0
    /\ total_prefijos = 0
    /\ first = NoResult
    /\ semaphore = SEMAPHORE_LIMIT
    /\ waiters = <<>>
    /\ at = [t \in unique_asns |-> "start"]
    /\ asn_cache = NotCached
    /\ results = [t \in unique_asns |-> NoValue]
    /\ process = [t \in unique_asns |-> NoValue]
    /\ queries = [a \in unique_asns |-> 0]

\* The event loop runs every task that can run, and every whois process
\* ends.
SpecWhois == InitWhois /\ [][NextWhois]_vars /\ WF_vars(NextWhois)

\* ------------------------------------------------- claims about the trie
\* A covers B: the first A.prefixlen bits of B's address are A's prefix.
Covers(A, B) ==
    B.network_address \div Pow2(AddrBits - A.prefixlen)
        = A.network_address \div Pow2(AddrBits - A.prefixlen)

StrictSupernets(B) ==
    {A \in inserted : A.prefixlen < B.prefixlen /\ Covers(A, B)}

\* The depth at which the walk of B's address bits leaves the inserted
\* prefixes, and whether an inserted network ends exactly there.
WalkDepth(B) ==
    LET ds == {d \in 0..AddrBits :
                  \E N \in inserted : d <= N.prefixlen /\ Covers(ip_network(N.network_address, d), B)}
    IN IF ds = {} THEN 0 ELSE CHOOSE d \in ds : \A e \in ds : e <= d

EndsOnNetwork(B) == ip_network(B.network_address, WalkDepth(B)) \in inserted

Overflows(B) == B.network_address + Pow2(AddrBits - B.prefixlen) > ALL_ONES

DeepestSupernet(B) ==
    LET S == {A \in StrictSupernets(B) : A.prefixlen >= 1}
    IN IF S = {} THEN None ELSE CHOOSE A \in S : \A A2 \in S : A2.prefixlen <= A.prefixlen

\* C1 as stated: whenever an inserted network A strictly covers the queried
\* network B, find_supernet_or_contiguous(B) returns A.
C1_AnySupernetReturned ==
    lastOp = "find" =>
        \A A \in StrictSupernets(lastArg) : lastOut.result = A

\* C1 amended: find_supernet_or_contiguous(B) returns the inserted network
\* of greatest prefix length among those of prefix length >= 1 that
\* strictly cover B (None when there is none), and raises instead when the
\* walk ends on a node that carries a network and B's block is the last one
\* of the address space.
C1_DeepestSupernetReturned ==
    lastOp = "find" =>
        lastOut.result = IF EndsOnNetwork(lastArg) /\ Overflows(lastArg)
                         THEN Raised
                         ELSE DeepestSupernet(lastArg)

\* A query with two inserted strict supernets, answered with the deeper one.
C1_Witness ==
    /\ lastOp = "find"
    /\ Cardinality({A \in StrictSupernets(lastArg) : A.prefixlen >= 1}) = 2
    /\ lastOut.result \in inserted
    /\ \E A \in StrictSupernets(lastArg) : A.prefixlen < lastOut.result.prefixlen

\* C2: when an inserted network A of the query's prefix length L has
\* B.address = A.address + 2^(128-L), find_supernet_or_contiguous(B)
\* returns A.
C2_ContiguousReturned ==
    lastOp = "find" =>
        \A A \in inserted :
            (A.prefixlen = lastArg.prefixlen /\
             lastArg.network_address = A.network_address + Pow2(AddrBits - A.prefixlen))
                => lastOut.result = A

\* C5: mark_as_aggregated on a network that was never inserted raises
\* nothing.
C5_MarkNeverRaises ==
    (lastOp = "mark" /\ lastArg \notin inserted) => lastOut.result # Raised

\* C6: the sum address + 2^(128 - prefix_length), whenever
\* find_supernet_or_contiguous computes it, is an address (< 2^128) and the
\* lookup does not raise.
C6_NextPrefixInRange ==
    lastOp = "find" =>
        /\ lastOut.next_prefix <= ALL_ONES
        /\ lastOut.result # Raised

\* C7: every inserted network N is reached by walking its first prefixlen
\* address bits from the root through existing children, and the node
\* reached carries N.
BitAt(addr, i) == (addr \div Pow2(AddrBits - i)) % 2

PathTo(N, i) == [j \in 1..i |-> BitAt(N.network_address, j)]

C7_InsertedReachable ==
    \A N \in inserted :
        /\ \A i \in 1..N.prefixlen :
              /\ PathTo(N, i) \in DOMAIN trie
              /\ BitAt(N.network_address, i) \in trie[PathTo(N, i - 1)].children
        /\ PathTo(N, N.prefixlen) \in DOMAIN trie
        /\ trie[PathTo(N, N.prefixlen)].network = N

\* A second insert has happened below a node and left the earlier network,
\* whose address begins with a zero bit, in place.
C7_Witness ==
    /\ lastOp = "insert"
    /\ \E N \in inserted :
          /\ N # lastArg
          /\ N.prefixlen >= 2
          /\ BitAt(N.network_address, 1) = 0
          /\ Covers(N, lastArg)
          /\ N.prefixlen < lastArg.prefixlen

\* C11: insert of a network that was inserted before, in particular a
\* second insert(N) right after the first, leaves the trie as it is: the
\* same nodes, and every node's children, network and is_aggregated.
C11_ReinsertLeavesTrie ==
    [][(lastOp' = "insert" /\ lastArg' \in inserted) => trie' = trie]_vars

\* A network has been inserted again after it was marked and after a
\* longer network was inserted below it.
C11_Witness ==
    /\ lastOp = "insert"
    /\ lastArg.prefixlen >= 1
    /\ trie[PrefixStr(lastArg)].is_aggregated
    /\ trie[PrefixStr(lastArg)].children # {}

\* The depths >= 1 on the query's bit path where the trie has a node that
\* carries a network of shorter prefix length than the query, and the
\* network at the deepest of them.
CandidateDepths(Q) ==
    {d \in 1..AddrBits :
        /\ \A e \in 1..d : PathTo(Q, e) \in DOMAIN trie
        /\ trie[PathTo(Q, d)].network # None
        /\ trie[PathTo(Q, d)].network.prefixlen < Q.prefixlen}

DeepestOnPath(Q) ==
    IF CandidateDepths(Q) = {} THEN None
    ELSE LET d == CHOOSE x \in CandidateDepths(Q) : \A y \in CandidateDepths(Q) : y <= x
         IN trie[PathTo(Q, d)].network

\* The contiguity test fired: the node where the walk stopped carries a
\* network whose address is the computed next_prefix.
ContiguityFired(Q) ==
    LET r == FindCall(trie, Q)
    IN /\ trie[r.node].network # None
       /\ r.next_prefix <= ALL_ONES
       /\ trie[r.node].network.network_address = r.next_prefix

\* C13: when the contiguity test does not fire,
\* find_supernet_or_contiguous(Q) returns the network stored at the deepest
\* node on Q's bit path (depth >= 1) whose prefix length is less than Q's,
\* and None when there is no such node.
C13_DeepestCandidateReturned ==
    (lastOp = "find" /\ ~ContiguityFired(lastArg)) =>
        lastOut.result = DeepestOnPath(lastArg)

\* C18: mark_as_aggregated(N) for an inserted network N sets the
\* is_aggregated flag of N's terminal node and changes nothing else: no
\* node is created, no node's network or children change, no other flag
\* changes, and nothing is raised; and no operation of the trie ever resets
\* a flag that is set or removes a node.
C18_MarkSetsOneFlag ==
    /\ [][(lastOp' = "mark" /\ lastArg' \in inserted) =>
            /\ lastOut'.result # Raised
            /\ DOMAIN trie' = DOMAIN trie
            /\ trie'[PrefixStr(lastArg')].is_aggregated
            /\ \A n \in DOMAIN trie :
                  /\ trie'[n].network = trie[n].network
                  /\ trie'[n].children = trie[n].children
                  /\ n # PrefixStr(lastArg') =>
                         trie'[n].is_aggregated = trie[n].is_aggregated]_vars
    /\ [][\A n \in DOMAIN trie :
            /\ n \in DOMAIN trie'
            /\ trie[n].is_aggregated => trie'[n].is_aggregated]_vars

\* An inserted network below another inserted network has been marked; the
\* one above it carries no flag.
C18_Witness ==
    /\ lastOp = "mark"
    /\ lastArg \in inserted
    /\ trie[PrefixStr(lastArg)].is_aggregated
    /\ \E A \in inserted :
          /\ A.prefixlen >= 1
          /\ A.prefixlen < lastArg.prefixlen
          /\ Covers(A, lastArg)
          /\ ~trie[PrefixStr(A)].is_aggregated

\* C19: on every trie and every query, find_supernet_or_contiguous without
\* the contiguity test (calcilo_metricas.py) has the same outcome as
\* find_supernet_or_contiguous with it (v1 to v5).
C19_SameOutcomeWithoutContiguity ==
    lastOp = "find" => lastOut.result = FindCallNoContiguity(trie, lastArg).result

\* C23: a network R that find_supernet_or_contiguous(Q) returns strictly
\* covers Q: its prefix length is less than Q's and its prefix bits are the
\* first bits of Q's address; it is never Q itself.
C23_ResultStrictlyCovers ==
    (lastOp = "find" /\ lastOut.result # None /\ lastOut.result # Raised) =>
        /\ lastOut.result.prefixlen < lastArg.prefixlen
        /\ \A i \in 1..lastOut.result.prefixlen :
              BitAt(lastOut.result.network_address, i) = BitAt(lastArg.network_address, i)
        /\ lastOut.result # lastArg

\* A lookup of an inserted network has returned another inserted network,
\* at least two bits shorter.
C23_Witness ==
    /\ lastOp = "find"
    /\ lastArg \in inserted
    /\ lastOut.result \in inserted
    /\ lastOut.result.prefixlen + 2 <= lastArg.prefixlen

\* ------------------------------------------------ claims about the runs
DistinctNetworks == {df[i].network : i \in 1..Len(df)}

\* C3: in the per-origin-AS variants the event count never exceeds the
\* number of distinct networks of the input (total unique minus event
\* count is never negative).
C3_EventsAtMostNetworks ==
    variant \in Grouped => max_agg_prefixes_count <= Cardinality(DistinctNetworks)

\* C4: aggregated_networks never has more members than the input has
\* distinct networks, at any point of a run.
C4_AggregatedAtMostNetworks ==
    Cardinality(aggregated_networks) <= Cardinality(DistinctNetworks)

\* A finished run in which every distinct network of the input, and there
\* are at least two, is in aggregated_networks.
C4_Witness ==
    /\ pc = "done"
    /\ Cardinality(DistinctNetworks) >= 2
    /\ aggregated_networks = DistinctNetworks

C9_RerunSameResult ==
    plan = "rerun" =>
        /\ pc = "done" => first = Result
        /\ pc = "crashed" => run = 1

\* A second grouped run has completed on a trie with a marked node, after
\* at least two events in each run.
C9_Witness ==
    /\ plan = "rerun"
    /\ pc = "done"
    /\ variant \in Grouped
    /\ max_agg_prefixes_count >= 2
    /\ \E n \in DOMAIN trie : trie[n].is_aggregated

\* C10 as stated: the result is the same for every ordering of the records,
\* in every variant.
C10_OrderIndependent ==
    (plan = "reorder" /\ pc = "done") => first = Result

\* C10 amended: in the per-origin-AS variants (v3, v4, v5), which sort each
\* group, the result is the same for every ordering of the records.
C10_GroupedOrderIndependent ==
    (plan = "reorder" /\ variant \in Grouped) =>
        /\ pc = "done" => first = Result
        /\ pc = "crashed" => run = 1

\* A grouped run has completed on records that were not in sorted order,
\* with at least two events.
C10_Witness ==
    /\ plan = "reorder"
    /\ pc = "done"
    /\ variant \in Grouped
    /\ max_agg_prefixes_count >= 2
    /\ NetworkColumn(df) # sorted(NetworkColumn(df))
    /\ Cardinality(DistinctNetworks) = 3

\* C12: with no records at all the run ends with an event count of 0 and an
\* empty aggregated_networks, of 0 distinct networks, and no call raises.
C12_EmptyInput ==
    df = <<>> =>
        /\ max_agg_prefixes_count = 0
        /\ aggregated_networks = {}
        /\ total_prefijos = 0
        /\ pc # "crashed"
        /\ lastOut.result # Raised
        /\ run = 2 => first = [aggregated_networks |-> {}, max_agg_prefixes_count |-> 0]

\* Both runs over no records have returned.
C12_Witness ==
    /\ df = <<>>
    /\ pc = "done"
    /\ trie = PatriciaTrie
    /\ first = Result

\* ------------------------------------------------ claims about v2
\* The origin ASes that announce a network.
Announcers(network) == {df[i].origin_as : i \in {j \in 1..Len(df) : df[j].network = network}}

\* C14: in v2, the network matched for a network of the origin AS being
\* processed is itself announced by that origin AS.
C14_MatchInSameAS ==
    [][(variant = "v2" /\ pc = "group" /\
        max_agg_prefixes_count' = max_agg_prefixes_count + 1)
          => Head(pending) \in Announcers(lastOut'.result)]_vars

\* ------------------------------------------- more claims about the runs
\* C15: every network find_supernet_or_contiguous returns, and every member
\* of aggregated_networks and of aggregated_in_as at any point of a run, is
\* a network that was inserted into the trie; and the answer is the one the
\* lookup gives on the trie as it is, whatever group is being processed and
\* whatever has been marked.
C15_ResultsWereInserted ==
    /\ (lastOp = "find" /\ lastOut.result # None /\ lastOut.result # Raised)
          => lastOut.result \in inserted
    /\ aggregated_networks \subseteq inserted
    /\ aggregated_in_as \subseteq inserted
    /\ lastOp = "find" => lastOut.result = find_supernet_or_contiguous(trie, lastArg)

\* A grouped run over two origin ASes has ended with a lookup whose answer,
\* now in aggregated_networks, is a network only the other origin AS
\* announces.
C15_Witness ==
    /\ pc = "done"
    /\ variant \in Grouped
    /\ Len(GroupKeys(df)) = 2
    /\ lastOp = "find"
    /\ lastOut.result \in aggregated_networks
    /\ Announcers(lastOut.result) = {1}
    /\ Announcers(lastArg) = {2}

\* The networks of a set that have the longest prefix among those of the set
\* with their address.
LongestPerAddress(S) ==
    {n \in S : \A other \in S :
        other.network_address = n.network_address => other.prefixlen <= n.prefixlen}

\* C16 as stated: at the end of every group of the per-origin-AS variants,
\* what the group adds to aggregated_networks is, for each address in the
\* group's aggregated set, the one network of longest prefix with that
\* address, and no other network of the set.
C16_GroupContributesLongest ==
    [][(variant \in Grouped /\ pc = "group" /\ pc' = "groups")
          => aggregated_networks' =
                 aggregated_networks \cup LongestPerAddress(aggregated_in_as)]_vars

\* C16 amended: the same, in the variant that has the filter (v5); the
\* variants without it (v3, v4) add the group's whole aggregated set.
C16_FilteredGroupContributesLongest ==
    [][(pc = "group" /\ pc' = "groups")
          => /\ variant = "v5" =>
                  /\ aggregated_networks' =
                         aggregated_networks \cup LongestPerAddress(aggregated_in_as)
                  /\ \A n \in LongestPerAddress(aggregated_in_as) :
                         Cardinality({m \in LongestPerAddress(aggregated_in_as) :
                                         m.network_address = n.network_address}) = 1
             /\ variant = "v4" =>
                  aggregated_networks' = aggregated_networks \cup aggregated_in_as]_vars

\* A group of v5 has ended whose aggregated set held two networks of one
\* address, and the shorter one is not in aggregated_networks.
C16_Witness ==
    /\ variant = "v5"
    /\ pc = "groups"
    /\ \E n \in aggregated_in_as :
          /\ n \notin aggregated_networks
          /\ \E other \in aggregated_in_as :
                /\ other.network_address = n.network_address
                /\ other.prefixlen > n.prefixlen
                /\ other \in aggregated_networks

\* The set the skip test reads: aggregated_networks in v1, the group's
\* aggregated_in_as in v4 and v5.
SkipSet == IF variant = "v1" THEN aggregated_networks ELSE aggregated_in_as

InLoop == pc \in {"scan", "group"} /\ idx <= Len(networks)

RECURSIVE SumLen(_, _)
SumLen(keys, k) ==
    IF k = 0 THEN 0 ELSE SumLen(keys, k - 1) + Len(GroupNetworks(df, keys[k]))

\* The number of list elements the run has gone past: the whole lists of
\* the groups that are over, and the elements before idx of the current one.
ElementsPassed ==
    IF pc = "scan" THEN idx - 1
    ELSE IF pc = "group"
         THEN SumLen(GroupKeys(df), Len(GroupKeys(df)) - Len(pending) - 1) + idx - 1
         ELSE SumLen(GroupKeys(df), Len(GroupKeys(df)) - Len(pending))

\* C17: a network that is in the aggregated set of its group (of the run,
\* in v1) when its turn comes is passed over with no lookup, no event and
\* no change but the loop index; the list of a group holds each network
\* once and a turn counts at most one event, so the events counted are never
\* more than the networks whose turn has come.
C17_SkipAndCountOnce ==
    /\ [](\A i, j \in 1..Len(networks) : i # j => networks[i] # networks[j])
    /\ []((pc \in {"scan", "group", "groups"}) => max_agg_prefixes_count <= ElementsPassed)
    /\ [][InLoop =>
            IF networks[idx] \in SkipSet
            THEN /\ idx' = idx + 1
                 /\ UNCHANGED <<trie, inserted, lastOp, lastArg, lastOut, df,
                                variant, plan, run, pc, pending, networks,
                                aggregated_in_as, aggregated_networks,
                                max_agg_prefixes_count, total_prefijos, first>>
            ELSE /\ lastOp' = "find" /\ lastArg' = networks[idx]
                 /\ max_agg_prefixes_count' \in
                        {max_agg_prefixes_count, max_agg_prefixes_count + 1}]_vars

\* In the first run of v1 the network before idx was passed over: it is in
\* aggregated_networks, as the answer of the last lookup, which was for
\* another network.
C17_Witness ==
    /\ variant = "v1"
    /\ run = 1
    /\ pc = "scan"
    /\ idx > 1
    /\ lastOp = "find"
    /\ lastArg # networks[idx - 1]
    /\ lastOut.result = networks[idx - 1]
    /\ networks[idx - 1] \in aggregated_networks

\* ------------------------------------------- claims about the WHOIS check
\* The tasks with a whois query in flight.
InFlight == {t \in unique_asns : at[t] \in {"spawning", "communicating"}}

AllReturned == \A t \in unique_asns : at[t] = "returned"

\* C20: at no time are more than SEMAPHORE_LIMIT whois queries in flight,
\* and in the end every task has returned, whether its query failed or not,
\* with the semaphore back at SEMAPHORE_LIMIT and nobody queued.
C20_BoundedAndTerminates ==
    /\ [](Cardinality(InFlight) <= SEMAPHORE_LIMIT)
    /\ <>[](AllReturned /\ semaphore = SEMAPHORE_LIMIT /\ waiters = <<>>)

\* SEMAPHORE_LIMIT queries are in flight, another task is queued, and a
\* task has already returned after a failed query.
C20_Witness ==
    /\ Cardinality(InFlight) = SEMAPHORE_LIMIT
    /\ \E t \in unique_asns : at[t] = "waiting"
    /\ \E t \in unique_asns : at[t] = "returned" /\ results[t] = FALSE

\* C21: a whois query that failed (an exception was raised, the output does
\* not decode, or the process exited with a non-zero status) makes
\* is_asn_registered return False and leaves False in asn_cache for the asn.
C21_FailureMeansUnregistered ==
    \A t \in unique_asns :
        process[t] \in {"raised", "undecodable", "nonzero"} =>
            /\ results[t] = FALSE
            /\ asn_of(t) \in DOMAIN asn_cache
            /\ asn_cache[asn_of(t)] = FALSE

MatchCount(nets, k) ==
    Cardinality({i \in 1..k : Lookup(trie, nets[i]).result \notin {None, Raised}})

RECURSIVE SumMatches(_, _)
SumMatches(keys, k) ==
    IF k = 0 THEN 0
    ELSE SumMatches(keys, k - 1) +
         MatchCount(GroupNetworks(df, keys[k]), Len(GroupNetworks(df, keys[k])))

GroupsOver == Len(GroupKeys(df)) - Len(pending) - (IF pc = "group" THEN 1 ELSE 0)

\* C24: in the files that sort each group (v3, v4, v5, calcilo_metricas),
\* the network whose turn has come is never in aggregated_in_as, so the skip
\* is not taken; and the event count is the number of networks, over the
\* groups gone through and the part of the current group gone through, for
\* which the lookup returns a network.
C24_SkipNeverTaken ==
    (variant \in SortedGrouped /\ pc \in {"group", "groups"}) =>
        /\ (pc = "group" /\ idx <= Len(networks)) => networks[idx] \notin aggregated_in_as
        /\ max_agg_prefixes_count =
               SumMatches(GroupKeys(df), GroupsOver) +
               (IF pc = "group" THEN MatchCount(networks, idx - 1) ELSE 0)

\* A group has been gone through in which a later network's lookup returned
\* an earlier network of the same group that has no match itself: the
\* earlier one is in aggregated_in_as, but only after its turn.
C24_Witness ==
    /\ variant \in SortedGrouped
    /\ pc = "group"
    /\ idx > Len(networks)
    /\ \E i, j \in 1..Len(networks) :
          /\ i < j
          /\ Lookup(trie, networks[j]).result = networks[i]
          /\ Lookup(trie, networks[i]).result = None
          /\ networks[i] \in aggregated_in_as
    /\ max_agg_prefixes_count >= 1

\* C25: while a group is gone through (the whole list in v1), before any
\* filter, the size s of the aggregated set and the number e of events of
\* the group satisfy e <= s <= 2*e. A group starts with an empty set; a step
\* that counts an event adds one or two networks to the set; a step that
\* counts none leaves the set as it is.
C25_SetSizeBetweenEventsAndTwice ==
    /\ [](pc = "scan" =>
            /\ max_agg_prefixes_count <= Cardinality(aggregated_networks)
            /\ Cardinality(aggregated_networks) <= 2 * max_agg_prefixes_count)
    /\ []((variant \in Grouped /\ pc = "group") =>
            /\ MatchCount(networks, idx - 1) <= Cardinality(aggregated_in_as)
            /\ Cardinality(aggregated_in_as) <= 2 * MatchCount(networks, idx - 1))
    /\ [][(pc = "groups" /\ pc' = "group") => aggregated_in_as' = {}]_vars
    /\ [][(pc \in {"scan", "group"} /\ pc' = pc) =>
            LET e == max_agg_prefixes_count' - max_agg_prefixes_count
                s == Cardinality(SkipSet') - Cardinality(SkipSet)
            IN /\ e \in {0, 1}
               /\ e <= s
               /\ s <= 2 * e
               /\ SkipSet \subseteq SkipSet']_vars

\* A group has counted two events that share a network: three networks in
\* its set.
C25_Witness ==
    /\ variant \in Grouped
    /\ pc = "group"
    /\ MatchCount(networks, idx - 1) = 2
    /\ Cardinality(aggregated_in_as) = 3
====
